---------------------------- MODULE Spec2Model ----------------------------
(***************************************************************************)
(* A model of asm-viewer (src/src/main.rs): the object loader              *)
(* (open_file / open_object), the extent estimator                         *)
(* (SymbolData::estimate_size, SymbolData::data) and the decode loop       *)
(* (SymbolData::assembly).                                                 *)
(*                                                                         *)
(* Four specifications share the variables:                                *)
(*   Spec        open_file's loop over files, archive members and the      *)
(*               top-level buffer, appending to the list of open objects   *)
(*   SpecBuild   one open_object call on an arbitrary parsed object file,  *)
(*               followed by estimate_size on a symbol it built            *)
(*   SpecExtent  estimate_size and data on arbitrary SymbolData values     *)
(*   SpecAsm     assembly, one decode-loop iteration per step              *)
(***************************************************************************)
EXTENDS Integers, Sequences, FiniteSets, TLC

VARIABLES
    objects,    \* ObjectList.objects: the open Objects, in push order
    pc,         \* position of the running handler
    queue,      \* open_file: the files of the dialog not yet visited
    cur_file,   \* open_file: what fs::read returned for the current file
    mark,       \* the length of `objects` when the current file was read
    member,     \* open_file: index of the next archive member of the current file
    calls,      \* log of the open_object calls made for the current file
    self,       \* the SymbolData a method is called on
    bs,         \* what section.symbols.binary_search(&self.address) returned
    size_r,     \* the value estimate_size returned
    data_r,     \* the value data returned
    object,     \* assembly: the Object passed as `object`
    decoder,    \* assembly: the iced_x86 decoder's bytes, position and ip
    assembly,   \* assembly: the Assembly under construction
    assembly_r  \* the value assembly returned

vars == <<objects, pc, queue, cur_file, mark, member, calls, self, bs, size_r, data_r,
          object, decoder, assembly, assembly_r>>

loaderVars == <<objects, queue, cur_file, mark, member, calls>>
extentVars == <<self, bs, size_r, data_r>>
asmVars    == <<object, decoder, assembly, assembly_r>>

----------------------------------------------------------------------------
(* Bounds of the model. *)

\* u64::MAX, scaled down: addresses and sizes range over 0..U64_MAX
U64_MAX == 5
\* the longest Section.data
MaxLen == 3
\* the most entries of Section.symbols in SpecExtent and SpecAsm
MaxSyms == 3

\* usize::MAX on the 64-bit targets the viewer is built for
USIZE_MAX == U64_MAX

U64 == 0..U64_MAX

----------------------------------------------------------------------------
(* Option<T>: None is the empty sequence, Some(x) the sequence holding x. *)

None == <<>>
Some(x) == <<x>>
IsSome(o) == Len(o) = 1
IsNone(o) == Len(o) = 0

checked_add(a, b) == IF a + b <= U64_MAX THEN Some(a + b) ELSE None
checked_sub(a, b) == IF a >= b THEN Some(a - b) ELSE None
wrapping_add(a, b) == (a + b) % (U64_MAX + 1)
wrapping_sub(a, b) == (a - b) % (U64_MAX + 1)
usize_checked_add(a, b) == IF a + b <= USIZE_MAX THEN Some(a + b) ELSE None

\* usize -> u64 and u64 -> usize, as try_into().ok()
usize_to_u64(n) == IF n <= U64_MAX THEN Some(n) ELSE None
u64_to_usize(n) == IF n <= USIZE_MAX THEN Some(n) ELSE None

IsSorted(v) == \A i \in 1..(Len(v) - 1) : v[i] <= v[i + 1]
IsStrictlyAscending(v) == \A i \in 1..(Len(v) - 1) : v[i] < v[i + 1]

----------------------------------------------------------------------------
(* SymbolData::estimate_size and SymbolData::data.                          *)
(*                                                                         *)
(* A Section is [name, data, address, relocations, symbols]; a SymbolData  *)
(* is [name, demangled, address, section, size] with section an Option.    *)
(* Indices are 1-based here: Rust's i is i - 1.                            *)

\* slice::binary_search on a sorted slice: Ok(i) for an i with v[i] = x when
\* there is one, else Err. With several matches the one returned is
\* unspecified (any of them), so the outcomes form a set.
binary_search(v, x) ==
    LET hits == {i \in 1..Len(v) : v[i] = x}
    IN  IF hits = {} THEN {None} ELSE {Some(i) : i \in hits}

\* The outcomes of the search estimate_size runs for a symbol (None when the
\* symbol has no section: the search is not run).
SearchOutcomes(sym) ==
    IF IsNone(sym.section) THEN {None}
    ELSE binary_search(sym.section[1].symbols, sym.address)

\* A mutant of estimate_size: the subtractions wrap instead of failing.
estimate_size_wrapping(sym, found) ==
    IF IsNone(sym.section) THEN None
    ELSE IF IsNone(found) THEN None
    ELSE LET section == sym.section[1]
             i == found[1]
         IN  IF i = Len(section.symbols)
             THEN Some((section.address + Len(section.data) - sym.address)
                       % (U64_MAX + 1))
             ELSE Some((section.symbols[i + 1] - sym.address) % (U64_MAX + 1))

\* estimate_size, with `found` the result of the binary search at line 58.
estimate_size(sym, found) ==
    IF IsNone(sym.section) THEN None
    ELSE IF IsNone(found) THEN None
    ELSE LET section == sym.section[1]
             i == found[1]
         IN  IF i = Len(section.symbols)
             THEN LET len == usize_to_u64(Len(section.data))
                  IN  IF IsNone(len) THEN None
                      ELSE LET end == checked_add(section.address, len[1])
                           IN  IF IsNone(end) THEN None
                               ELSE checked_sub(end[1], sym.address)
             ELSE checked_sub(section.symbols[i + 1], sym.address)

\* A mutant of slice_get: an end past the slice is clamped to its length.
slice_get_clamped(v, start, end) ==
    IF start > end \/ start > Len(v) THEN None
    ELSE Some(SubSeq(v, start + 1, IF end > Len(v) THEN Len(v) ELSE end))

\* <[u8]>::get(start..end)
slice_get(v, start, end) ==
    IF start > end \/ end > Len(v) THEN None
    ELSE Some(SubSeq(v, start + 1, end))

\* data, with `found` the result of the binary search its estimate_size runs.
data(sym, found) ==
    IF IsNone(sym.section) THEN None
    ELSE LET section == sym.section[1]
             est == estimate_size(sym, found)
         IN  IF IsNone(est) THEN None
             ELSE LET size == u64_to_usize(est[1])
                  IN  IF IsNone(size) THEN None
                      ELSE LET off64 == checked_sub(sym.address, section.address)
                           IN  IF IsNone(off64) THEN None
                               ELSE LET offset == u64_to_usize(off64[1])
                                    IN  IF IsNone(offset) THEN None
                                        ELSE LET end == usize_checked_add(offset[1], size[1])
                                             IN  IF IsNone(end) THEN None
                                                 ELSE slice_get(section.data, offset[1], end[1])

----------------------------------------------------------------------------
(* SpecExtent: estimate_size and data on arbitrary values.                  *)

\* Sorted address lists (duplicates kept, as sort_unstable keeps them).
SortedLists(n) ==
    {v \in UNION {[1..k -> U64] : k \in 0..n} : IsSorted(v)}

\* Section bytes that tell their position: byte k of the section is k.
PositionBytes(n) == [k \in 1..n |-> k % 256]

NoRelocations == [a \in {} |-> None]

ExtentSections ==
    {[name |-> ".text", data |-> PositionBytes(n), address |-> base,
      relocations |-> NoRelocations, symbols |-> v] :
        n \in 0..MaxLen, base \in U64, v \in SortedLists(MaxSyms)}

ExtentSymbols ==
    {[name |-> "f", demangled |-> None, address |-> a, section |-> s, size |-> 0] :
        a \in U64, s \in {None} \cup {Some(x) : x \in ExtentSections}}

Idle == <<>>

InitExtent ==
    /\ self \in ExtentSymbols
    /\ pc = "ready"
    /\ bs = None
    /\ size_r = None
    /\ data_r = None
    /\ objects = <<>>
    /\ queue = <<>>
    /\ cur_file = None
    /\ mark = 0
    /\ member = 0
    /\ calls = <<>>
    /\ object = Idle
    /\ decoder = Idle
    /\ assembly = Idle
    /\ assembly_r = None

\* self.estimate_size()
EstimateSize ==
    /\ pc = "ready"
    /\ \E found \in SearchOutcomes(self) :
        /\ bs' = found
        /\ size_r' = estimate_size(self, found)
    /\ pc' = "estimated"
    /\ UNCHANGED <<self, data_r, loaderVars, asmVars>>

\* self.data()
Data ==
    /\ pc = "ready"
    /\ \E found \in SearchOutcomes(self) :
        /\ bs' = found
        /\ size_r' = estimate_size(self, found)
        /\ data_r' = data(self, found)
    /\ pc' = "sliced"
    /\ UNCHANGED <<self, loaderVars, asmVars>>

NextExtent == EstimateSize \/ Data

SpecExtent == InitExtent /\ [][NextExtent]_vars


----------------------------------------------------------------------------
(* Claims settled under SpecExtent.                                         *)

SelfSection == self.section[1]
SectionEnd(section) == section.address + Len(section.data)
FoundLast == IsSome(bs) /\ bs[1] = Len(SelfSection.symbols)
FoundNotLast == IsSome(bs) /\ bs[1] < Len(SelfSection.symbols)

\* C3: data() returns no result, or exactly the section bytes at
\* [address - base, address - base + estimate_size); that range starts at or
\* after the section base and ends within the section's bytes.
C3_DataWithinSection ==
    pc = "sliced" =>
        \/ data_r = None
        \/ /\ IsSome(self.section)
           /\ IsSome(size_r)
           /\ self.address >= SelfSection.address
           /\ self.address - SelfSection.address + size_r[1] <= Len(SelfSection.data)
           /\ Len(data_r[1]) = size_r[1]
           /\ \A k \in 1..Len(data_r[1]) :
                data_r[1][k] = SelfSection.data[self.address - SelfSection.address + k]

\* C3 witness: data() returned two or more bytes from a nonzero offset.
C3_Witness ==
    /\ pc = "sliced"
    /\ IsSome(data_r)
    /\ Len(data_r[1]) >= 2
    /\ self.address > SelfSection.address

\* C4 as stated: estimate_size returns no result whenever the symbol has no
\* section, its address is not in the list, base + length overflows, or the
\* address lies beyond the section end, in either branch.
C4_RejectsWheneverInconsistent ==
    pc = "estimated" =>
        ((\/ IsNone(self.section)
          \/ \A i \in 1..Len(SelfSection.symbols) : SelfSection.symbols[i] # self.address
          \/ SectionEnd(SelfSection) > U64_MAX
          \/ self.address > SectionEnd(SelfSection))
         => size_r = None)

\* C4 amended: estimate_size returns no result exactly when the symbol has no
\* section, its address is not in the list, or the position found is the last
\* one and base + length overflows or lies below the address; a result is the
\* exact (unwrapped) difference. For a position that is not the last the
\* section end is not consulted.
C4_RejectsInLastBranchOnly ==
    pc = "estimated" =>
        /\ size_r = None <=>
            \/ IsNone(self.section)
            \/ \A i \in 1..Len(SelfSection.symbols) : SelfSection.symbols[i] # self.address
            \/ /\ FoundLast
               /\ \/ SectionEnd(SelfSection) > U64_MAX
                  \/ self.address > SectionEnd(SelfSection)
        /\ IsSome(size_r) /\ FoundLast =>
                size_r[1] = SectionEnd(SelfSection) - self.address
        /\ IsSome(size_r) /\ FoundNotLast =>
                size_r[1] = SelfSection.symbols[bs[1] + 1] - self.address

\* C4 witness: the last symbol of a section lies beyond the section end and
\* estimate_size returned no result.
C4_Witness ==
    /\ pc = "estimated"
    /\ IsSome(self.section)
    /\ FoundLast
    /\ self.address > SectionEnd(SelfSection)
    /\ SectionEnd(SelfSection) <= U64_MAX
    /\ size_r = None


----------------------------------------------------------------------------
(* open_object.                                                             *)
(*                                                                         *)
(* A buffer is [archive, object]: what ArchiveFile::parse and              *)
(* object::File::parse make of its bytes, each an Option. A parsed object  *)
(* file is [format, sections, symbols], its sections                       *)
(* [index, name_bytes, uncompressed_data, address, relocations] and its    *)
(* symbols [index, kind, section, address, name_bytes, size] in the        *)
(* file's own order.                                                       *)

\* String::from_utf8_lossy(..).into_owned(): valid names come back as they
\* are, an invalid byte sequence comes back as U+FFFD.
from_utf8_lossy(bytes) ==
    CASE bytes = "ma\\xFFin" -> "ma\\u{FFFD}in"
      [] OTHER -> bytes

\* symbolic_common::Name::from(&name).demangle(DemangleOptions::complete())
demangle(name) ==
    CASE name = "_ZN3foo3barE" -> Some("foo::bar")
      [] name = "_Z3bazv" -> Some("baz()")
      [] OTHER -> None

\* The order of str::cmp on the names of the model.
NameOrder == <<"_Z3bazv", "_ZN3foo3barE", "ma\\u{FFFD}in", "main", "start">>
NameRank(name) == CHOOSE i \in 1..Len(NameOrder) : NameOrder[i] = name

\* section.relocations().collect(): a HashMap keyed by address, a later pair
\* of the iteration replacing an earlier one at the same address.
RECURSIVE collect_relocations(_)
collect_relocations(pairs) ==
    IF pairs = <<>> THEN [a \in {} |-> None]
    ELSE LET n == Len(pairs)
             before == collect_relocations(SubSeq(pairs, 1, n - 1))
             last == pairs[n]
         IN  [a \in DOMAIN before \cup {last[1]} |->
                IF a = last[1] THEN last[2] ELSE before[a]]

\* Lines 186-203: the file sections whose name and contents can be read.
RetainedSections(file) ==
    {i \in 1..Len(file.sections) :
        /\ IsSome(file.sections[i].name_bytes)
        /\ IsSome(file.sections[i].uncompressed_data)}

\* The position in file.sections of the retained section with this index.
SectionAt(file, index) ==
    {i \in RetainedSections(file) : file.sections[i].index = index}

\* Lines 206-216: the addresses pushed to the section with this index, in
\* the order the file's symbols are iterated.
RECURSIVE pushed_addresses(_, _)
pushed_addresses(symbols, index) ==
    IF symbols = <<>> THEN <<>>
    ELSE LET symbol == Head(symbols)
         IN  (IF symbol.kind = "Text" /\ symbol.section = Some(index)
              THEN <<symbol.address>> ELSE <<>>)
             \o pushed_addresses(Tail(symbols), index)

\* <[u64]>::sort_unstable
sort_unstable(v) == SortSeq(v, <)

\* Lines 194-200 and 218-224: the Section built for file section i.
BuildSection(file, i) ==
    LET fs == file.sections[i]
    IN  [name |-> from_utf8_lossy(fs.name_bytes[1]),
         data |-> fs.uncompressed_data[1],
         address |-> fs.address,
         relocations |-> collect_relocations(fs.relocations),
         symbols |-> sort_unstable(pushed_addresses(file.symbols, fs.index))]

\* section_map.get(&index).cloned() for a symbol's section().index()
SectionOf(file, symbol) ==
    IF IsNone(symbol.section) THEN None
    ELSE LET at == SectionAt(file, symbol.section[1])
         IN  IF at = {} THEN None
             ELSE Some(BuildSection(file, CHOOSE i \in at : TRUE))

\* Lines 228-254: the positions in file.symbols of the symbols kept.
KeptSymbols(file) ==
    {k \in 1..Len(file.symbols) :
        /\ file.symbols[k].kind = "Text"
        /\ IsSome(file.symbols[k].name_bytes)}

\* Lines 243-251: the SymbolData built for file symbol k.
BuildSymbol(file, k) ==
    LET symbol == file.symbols[k]
        name == from_utf8_lossy(symbol.name_bytes[1])
    IN  [name |-> name,
         demangled |-> demangle(name),
         section |-> SectionOf(file, symbol),
         address |-> symbol.address,
         size |-> symbol.size]

\* All orders of a finite set, as sequences.
Orders(S) ==
    {f \in [1..Cardinality(S) -> S] : \A i, j \in DOMAIN f : i # j => f[i] # f[j]}

\* The Objects open_object may build from a parsed file: the order of
\* `sections` is a HashMap's iteration order, and symbols_sorted is sorted by
\* name with equal names in any order.
BuildObjects(file, name, path) ==
    LET kept == KeptSymbols(file)
        symbols == [index \in {file.symbols[k].index : k \in kept} |->
                        BuildSymbol(file, CHOOSE k \in kept : file.symbols[k].index = index)]
    IN  {[path |-> path,
          name |-> name,
          format |-> file.format,
          symbols |-> symbols,
          symbols_sorted |-> [i \in DOMAIN so |-> symbols[so[i]]],
          sections |-> [i \in DOMAIN se |-> BuildSection(file, se[i])]] :
            so \in {o \in Orders(DOMAIN symbols) :
                        \A i \in 1..(Len(o) - 1) :
                            NameRank(symbols[o[i]].name) <= NameRank(symbols[o[i + 1]].name)},
            se \in Orders(RetainedSections(file))}

\* A mutant of open_object: the new Object is put at the front of the list.
open_object_front(objs, buffer, name, path) ==
    IF IsNone(buffer.object) THEN {objs}
    ELSE {<<o>> \o objs : o \in BuildObjects(buffer.object[1], name, path)}

\* open_object(objects, data, name, path): the lists it may leave in
\* `objects`. object::File::parse failing leaves the list as it is.
open_object(objs, buffer, name, path) ==
    IF IsNone(buffer.object) THEN {objs}
    ELSE {Append(objs, o) : o \in BuildObjects(buffer.object[1], name, path)}


----------------------------------------------------------------------------
(* open_file: Spec.                                                         *)

\* the most files one dialog returns
MaxFiles == 2
\* the most members of an archive
MaxMembers == 2
\* the files read are such that no more Objects than this are ever open
MaxObjects == 3

NoRelocs == <<>>

\* Two object files of the catalogue.
ObjA ==
    [format |-> "Elf",
     sections |-> <<[index |-> 1, name_bytes |-> Some(".text"),
                     uncompressed_data |-> Some(<<0, 1, 0>>), address |-> 0,
                     relocations |-> NoRelocs]>>,
     symbols |-> <<[index |-> 1, kind |-> "Text", section |-> Some(1), address |-> 1,
                    name_bytes |-> Some("main"), size |-> 0],
                   [index |-> 2, kind |-> "Text", section |-> Some(1), address |-> 0,
                    name_bytes |-> Some("_Z3bazv"), size |-> 0]>>]

ObjB ==
    [format |-> "Coff",
     sections |-> <<[index |-> 1, name_bytes |-> Some(".text"),
                     uncompressed_data |-> None, address |-> 0,
                     relocations |-> NoRelocs],
                    [index |-> 2, name_bytes |-> Some(".init"),
                     uncompressed_data |-> Some(<<0>>), address |-> 2,
                     relocations |-> <<<<2, [target |-> [kind |-> "Section", index |-> 1]]>>>>]>>,
     symbols |-> <<[index |-> 1, kind |-> "Text", section |-> Some(2), address |-> 2,
                    name_bytes |-> Some("start"), size |-> 1],
                   [index |-> 2, kind |-> "Data", section |-> Some(2), address |-> 2,
                    name_bytes |-> Some("main"), size |-> 0]>>]

Junk == [archive |-> None, object |-> None]

\* What archive.members() yields for one member: Err, or a member whose
\* data() is Err, no object, or an object.
MemberChoices ==
    {None,
     Some([name |-> "a.o", data |-> None]),
     Some([name |-> "a.o", data |-> Some(Junk)]),
     Some([name |-> "a.o", data |-> Some([archive |-> None, object |-> Some(ObjA)])]),
     Some([name |-> "b.o", data |-> Some([archive |-> None, object |-> Some(ObjB)])])}

Archives == UNION {[1..n -> MemberChoices] : n \in 0..MaxMembers}

Buffers ==
    {[archive |-> a, object |-> o] :
        a \in {None} \cup {Some(x) : x \in Archives},
        o \in {None, Some(ObjA)}}

Paths == {"/lib/libfoo.a"}

\* path.file_name().map(|name| name.to_string_lossy()).unwrap_or_default()
FileName(path) ==
    CASE path = "/lib/libfoo.a" -> "libfoo.a"
      [] OTHER -> ""

\* A member of an archive yields a buffer that open_object is called on.
MemberHasData(m) == IsSome(m) /\ IsSome(m[1].data)
MemberIsObject(m) == MemberHasData(m) /\ IsSome(m[1].data[1].object)

\* The number of Objects opening a buffer as a file adds: one for each member
\* that is an object, one for the buffer itself when it is an object.
Yield(buffer) ==
    (IF IsNone(buffer.archive) THEN 0
     ELSE Cardinality({k \in 1..Len(buffer.archive[1]) : MemberIsObject(buffer.archive[1][k])}))
    + (IF IsSome(buffer.object) THEN 1 ELSE 0)

\* Lines 284-294: one member of the archive.
archive_member(objs, m, path) ==
    IF ~MemberHasData(m) THEN {objs}
    ELSE open_object(objs, m[1].data[1], from_utf8_lossy(m[1].name), path)

\* A mutant of after_member: a member that yields no Object ends the loop.
after_member_abort(members, k) ==
    IF MemberIsObject(members[k]) THEN k + 1 ELSE Len(members) + 1

\* Line 283: the for loop goes on to the next member whatever the last did.
after_member(members, k) == k + 1

Init ==
    /\ objects = <<>>
    /\ pc = "idle"
    /\ queue = <<>>
    /\ cur_file = None
    /\ mark = 0
    /\ member = 0
    /\ calls = <<>>
    /\ self = Idle
    /\ bs = None
    /\ size_r = None
    /\ data_r = None
    /\ object = Idle
    /\ decoder = Idle
    /\ assembly = Idle
    /\ assembly_r = None

\* open_file up to the loop: the dialog returns no selection or some paths.
OpenFile ==
    /\ pc = "idle"
    /\ Len(objects) < MaxObjects
    /\ \E files \in {None} \cup
                    {Some(ps) : ps \in UNION {[1..n -> Paths] : n \in 0..MaxFiles}} :
        IF IsNone(files) \/ files[1] = <<>>
        THEN UNCHANGED <<pc, queue>>
        ELSE queue' = files[1] /\ pc' = "read"
    /\ UNCHANGED <<objects, cur_file, mark, member, calls, extentVars, asmVars>>

\* Lines 280-282: fs::read(&path).unwrap() and ArchiveFile::parse.
ReadFile ==
    /\ pc = "read"
    /\ \E r \in {None} \cup {Some(b) : b \in Buffers} :
        /\ IsSome(r) => Len(objects) + Yield(r[1]) <= MaxObjects
        /\ cur_file' = r
        /\ pc' = IF IsNone(r) THEN "panicked"
                 ELSE IF IsSome(r[1].archive) /\ Len(r[1].archive[1]) > 0 THEN "members"
                 ELSE "toplevel"
    /\ mark' = Len(objects)
    /\ member' = 1
    /\ calls' = <<>>
    /\ UNCHANGED <<objects, queue, extentVars, asmVars>>

\* Lines 283-295: one iteration of the loop over the archive's members.
ArchiveMember ==
    /\ pc = "members"
    /\ LET members == cur_file[1].archive[1]
           m == members[member]
       IN  /\ \E objs \in archive_member(objects, m, Head(queue)) :
                /\ objects' = objs
                /\ calls' = IF MemberHasData(m)
                            THEN Append(calls, [who |-> "member", buffer |-> m[1].data[1],
                                                before |-> Len(objects), after |-> Len(objs)])
                            ELSE calls
           /\ member' = after_member(members, member)
           /\ pc' = IF after_member(members, member) > Len(members)
                    THEN "toplevel" ELSE "members"
    /\ UNCHANGED <<queue, cur_file, mark, extentVars, asmVars>>

\* Lines 298-306: open_object on the file's own bytes, then the next file.
TopLevel ==
    /\ pc = "toplevel"
    /\ \E objs \in open_object(objects, cur_file[1], FileName(Head(queue)), Head(queue)) :
        /\ objects' = objs
        /\ calls' = Append(calls, [who |-> "top", buffer |-> cur_file[1],
                                   before |-> Len(objects), after |-> Len(objs)])
    /\ queue' = Tail(queue)
    /\ pc' = IF Tail(queue) = <<>> THEN "idle" ELSE "read"
    /\ UNCHANGED <<cur_file, mark, member, extentVars, asmVars>>

Next == OpenFile \/ ReadFile \/ ArchiveMember \/ TopLevel

Spec == Init /\ [][Next]_vars


----------------------------------------------------------------------------
(* SpecBuild: open_object on an object file with any symbols in any order, *)
(* then estimate_size and data on a symbol of the Object it built.         *)

\* The symbols a file may list: code symbols of section 1 at every address,
\* one with a mangled name, one whose name cannot be read, a data symbol, a
\* code symbol of section 2 and a code symbol of no section.
SymbolChoices ==
    {[kind |-> "Text", section |-> Some(1), address |-> a,
      name_bytes |-> Some("main"), size |-> 0] : a \in U64}
    \cup
    {[kind |-> "Text", section |-> Some(1), address |-> 0,
      name_bytes |-> Some("_ZN3foo3barE"), size |-> 1],
     [kind |-> "Text", section |-> Some(1), address |-> 1,
      name_bytes |-> None, size |-> 0],
     [kind |-> "Data", section |-> Some(1), address |-> 1,
      name_bytes |-> Some("main"), size |-> 0],
     [kind |-> "Text", section |-> Some(2), address |-> 0,
      name_bytes |-> Some("ma\\xFFin"), size |-> 0],
     [kind |-> "Text", section |-> None, address |-> 2,
      name_bytes |-> Some("start"), size |-> 0]}

\* The symbol table of a file: symbol k has SymbolIndex k.
WithIndex(choices) ==
    [k \in DOMAIN choices |->
        [index |-> k, kind |-> choices[k].kind, section |-> choices[k].section,
         address |-> choices[k].address, name_bytes |-> choices[k].name_bytes,
         size |-> choices[k].size]]

BuildFiles ==
    {[format |-> "Elf",
      sections |-> <<[index |-> 1, name_bytes |-> Some(".text"),
                      uncompressed_data |-> Some(PositionBytes(MaxLen)),
                      address |-> base, relocations |-> NoRelocs],
                     [index |-> 2, name_bytes |-> Some(".init"),
                      uncompressed_data |-> d2, address |-> 0,
                      relocations |-> NoRelocs]>>,
      symbols |-> WithIndex(choices)] :
        base \in {0, 1},
        d2 \in {None, Some(<<>>)},
        choices \in UNION {[1..n -> SymbolChoices] : n \in 0..MaxSyms}}

\* The state open_file is in once it has read a file that is an object.
InitBuild ==
    /\ objects = <<>>
    /\ pc = "toplevel"
    /\ queue \in {<<p>> : p \in Paths}
    /\ cur_file \in {Some([archive |-> None, object |-> Some(f)]) : f \in BuildFiles}
    /\ mark = 0
    /\ member = 1
    /\ calls = <<>>
    /\ self = Idle
    /\ bs = None
    /\ size_r = None
    /\ data_r = None
    /\ object = Idle
    /\ decoder = Idle
    /\ assembly = Idle
    /\ assembly_r = None

\* The view selects a symbol of an open Object (Selection::Symbol).
SelectSymbol ==
    /\ pc = "idle"
    /\ \E i \in 1..Len(objects) :
        \E index \in DOMAIN objects[i].symbols :
            /\ self' = objects[i].symbols[index]
            /\ object' = objects[i]
    /\ pc' = "ready"
    /\ UNCHANGED <<loaderVars, bs, size_r, data_r, decoder, assembly, assembly_r>>

NextBuild == TopLevel \/ SelectSymbol \/ EstimateSize \/ Data

SpecBuild == InitBuild /\ [][NextBuild]_vars

\* C2 as stated: after open_object every Section's address list is strictly
\* ascending, whatever the order of the symbols and also when code symbols
\* share an address.
C2_StrictlyAscending ==
    \A i \in 1..Len(objects) :
        \A j \in 1..Len(objects[i].sections) :
            IsStrictlyAscending(objects[i].sections[j].symbols)

\* What sort_unstable does establish: the lists are sorted, repeats kept.
SortedWithRepeats ==
    \A i \in 1..Len(objects) :
        \A j \in 1..Len(objects[i].sections) :
            IsSorted(objects[i].sections[j].symbols)

\* The entry that follows the symbol's address in its section's list.
NextAddress(section, address) ==
    LET last == CHOOSE i \in 1..Len(section.symbols) :
                    /\ section.symbols[i] = address
                    /\ \A j \in (i + 1)..Len(section.symbols) : section.symbols[j] # address
    IN  section.symbols[last + 1]

\* The extent the claim gives a symbol whose address is in the list.
ExpectedSize(sym) ==
    LET section == sym.section[1]
    IN  IF section.symbols[Len(section.symbols)] = sym.address
        THEN SectionEnd(section) - sym.address
        ELSE NextAddress(section, sym.address) - sym.address

\* C1 as stated: for a symbol whose address is in its section's list,
\* estimate_size returns base + length - address when the address is the last
\* entry and next_address - address otherwise (where that value exists: no
\* overflow, address not beyond the section end).
C1_EstimateSizeValue ==
    (/\ pc = "estimated"
     /\ IsSome(self.section)
     /\ \E i \in 1..Len(SelfSection.symbols) : SelfSection.symbols[i] = self.address
     /\ SectionEnd(SelfSection) <= U64_MAX
     /\ ExpectedSize(self) \in U64)
    => size_r = Some(ExpectedSize(self))

\* The stated value is returned for every symbol whose section lists no
\* address twice.
EstimateSizeOnStrictLists ==
    (pc = "estimated" /\ IsSome(self.section) /\ IsStrictlyAscending(SelfSection.symbols))
    => C1_EstimateSizeValue


----------------------------------------------------------------------------
(* SymbolData::assembly.                                                    *)
(*                                                                         *)
(* iced_x86 is modelled by a small instruction set with its shape: an      *)
(* opcode byte fixes the instruction's length, the bytes after it are an   *)
(* immediate, and a byte sequence that is no instruction (an unknown       *)
(* opcode, or too few bytes left) decodes to an invalid instruction that   *)
(* consumes the bytes read.                                                 *)

\* The length of the instruction an opcode byte starts; 0 for no instruction.
NominalLen(opcode) ==
    CASE opcode = 0 -> 1      \* nop
      [] opcode = 1 -> 2      \* jmp rel8
      [] OTHER -> 0

HexDigits == <<"0", "1", "2", "3", "4", "5", "6", "7", "8", "9",
               "A", "B", "C", "D", "E", "F">>

RECURSIVE HexText(_)
HexText(n) ==
    IF n < 16 THEN HexDigits[n + 1]
    ELSE HexText(n \div 16) \o HexDigits[(n % 16) + 1]

\* The Intel formatter's text of a number: upper-case hex with an h suffix,
\* a leading 0 before a letter.
RECURSIVE LeadingDigit(_)
LeadingDigit(n) == IF n < 16 THEN n ELSE LeadingDigit(n \div 16)

NumberText(n) ==
    (IF LeadingDigit(n) >= 10 THEN "0" ELSE "") \o HexText(n) \o "h"

\* A mutant of DecoderWithIp: the decoder's ip starts at 0, not at the
\* symbol's address.
DecoderWithIpZero(bytes, ip) == [data |-> bytes, position |-> 0, ip |-> 0]

\* Decoder::with_ip(64, bytes, ip, DecoderOptions::NONE)
DecoderWithIp(bytes, ip) == [data |-> bytes, position |-> 0, ip |-> ip]

\* A mutant of can_decode: false as well when the bytes left are no whole
\* instruction.
can_decode_whole(d) ==
    /\ d.position < Len(d.data)
    /\ NominalLen(d.data[d.position + 1]) \in 1..(Len(d.data) - d.position)

\* Decoder::can_decode
can_decode(d) == d.position < Len(d.data)

\* Decoder::decode_out: the instruction at the decoder's position. An
\* instruction is [ip, len, code, near_branch]; a branch's target is the
\* next ip plus the displacement, within 64 bits.
decode_out(d) ==
    LET left == Len(d.data) - d.position
        opcode == d.data[d.position + 1]
        n == NominalLen(opcode)
    IN  IF n = 0 THEN [ip |-> d.ip, len |-> 1, code |-> "INVALID", near_branch |-> 0]
        ELSE IF n > left
        THEN [ip |-> d.ip, len |-> left, code |-> "INVALID", near_branch |-> 0]
        ELSE IF n = 1 THEN [ip |-> d.ip, len |-> 1, code |-> "Nopd", near_branch |-> 0]
        ELSE [ip |-> d.ip, len |-> 2, code |-> "Jmp_rel8_64",
              near_branch |-> (d.ip + 2 + d.data[d.position + 2]) % (U64_MAX + 1)]

\* The decoder after decode_out: ip advances with u64 wrap-around.
decoder_advance(d, instruction) ==
    [d EXCEPT !.position = d.position + instruction.len,
              !.ip = wrapping_add(d.ip, instruction.len)]

\* The calls IntelFormatter::format makes on its output for an instruction,
\* in order: write(text, kind) and write_number(.., text, .., kind).
FormatterCalls(instruction) ==
    CASE instruction.code = "Nopd" ->
            <<[call |-> "write", text |-> "nop", kind |-> "Mnemonic"]>>
      [] instruction.code = "Jmp_rel8_64" ->
            <<[call |-> "write", text |-> "jmp", kind |-> "Mnemonic"],
              [call |-> "write", text |-> " ", kind |-> "Text"],
              [call |-> "write", text |-> "short", kind |-> "Keyword"],
              [call |-> "write", text |-> " ", kind |-> "Text"],
              [call |-> "write_number", text |-> NumberText(instruction.near_branch),
               kind |-> "LabelAddress"]>>
      [] OTHER ->
            <<[call |-> "write", text |-> "(bad)", kind |-> "Mnemonic"]>>

\* Lines 148-150: FormatterOutput::write for Instruction.
write(inst, text, kind) ==
    [inst EXCEPT !.format = Append(inst.format, <<text, kind>>)]

\* A mutant of write_number: the number is written whatever the relocation.
write_number_always(inst, text, kind) == write(inst, text, kind)

\* Lines 152-165: FormatterOutput::write_number for Instruction.
write_number(inst, text, kind) ==
    IF IsNone(inst.relocation) THEN write(inst, text, kind) ELSE inst

\* Line 124: formatter.format(&instruction, &mut inst)
RECURSIVE format_calls(_, _)
format_calls(inst, formatter_calls) ==
    IF formatter_calls = <<>> THEN inst
    ELSE LET c == Head(formatter_calls)
         IN  format_calls(IF c.call = "write" THEN write(inst, c.text, c.kind)
                          ELSE write_number(inst, c.text, c.kind),
                          Tail(formatter_calls))

\* A mutant of scan_relocations: the first relocation found is kept.
RECURSIVE scan_relocations_first(_, _, _, _, _)
scan_relocations_first(section, ip, i, len, relocation) ==
    IF i >= len THEN relocation
    ELSE scan_relocations_first(section, ip, i + 1, len,
            IF wrapping_add(ip, i) \in DOMAIN section.relocations /\ IsNone(relocation)
            THEN Some(section.relocations[wrapping_add(ip, i)].target)
            ELSE relocation)

\* Lines 103-110: the loop over the instruction's bytes, from byte i on, with
\* `relocation` as the bytes before i left it.
RECURSIVE scan_relocations(_, _, _, _, _)
scan_relocations(section, ip, i, len, relocation) ==
    IF i >= len THEN relocation
    ELSE scan_relocations(section, ip, i + 1, len,
            IF wrapping_add(ip, i) \in DOMAIN section.relocations
            THEN Some(section.relocations[wrapping_add(ip, i)].target)
            ELSE relocation)

\* Lines 113-116: a symbol target is looked up in object.symbols.
resolve_relocation(obj, relocation) ==
    IF IsNone(relocation) THEN None
    ELSE IF relocation[1].kind = "Symbol" /\ relocation[1].index \in DOMAIN obj.symbols
         THEN Some(obj.symbols[relocation[1].index])
         ELSE None

\* A mutant of build_instruction: the bytes are taken from the start of the
\* symbol's bytes, not from start_index.
build_instruction_from_start(sym, obj, bytes, instruction) ==
    LET found == IF IsNone(sym.section) THEN None
                 ELSE scan_relocations(sym.section[1], instruction.ip, 0,
                                       instruction.len, None)
    IN  format_calls([address |-> instruction.ip,
                      bytes |-> SubSeq(bytes, 1, instruction.len),
                      format |-> <<>>,
                      relocation |-> resolve_relocation(obj, found)],
                     FormatterCalls(instruction))

\* Lines 98-124: the Instruction pushed for a decoded instruction, when the
\* slice bytes[start_index..start_index + len] is in range.
build_instruction(sym, obj, bytes, instruction) ==
    LET start_index == wrapping_sub(instruction.ip, sym.address)
        found == IF IsNone(sym.section) THEN None
                 ELSE scan_relocations(sym.section[1], instruction.ip, 0,
                                       instruction.len, None)
    IN  format_calls([address |-> instruction.ip,
                      bytes |-> SubSeq(bytes, start_index + 1, start_index + instruction.len),
                      format |-> <<>>,
                      relocation |-> resolve_relocation(obj, found)],
                     FormatterCalls(instruction))

\* The unchecked arithmetic of one loop iteration overflows: ip - self.address
\* at line 98, ip + i at line 106 or start_index + len at line 120. A build
\* with overflow checks panics there, one without wraps.
IterationOverflows(sym, instruction) ==
    \/ instruction.ip < sym.address
    \/ instruction.ip + (instruction.len - 1) > U64_MAX
    \/ wrapping_sub(instruction.ip, sym.address) + instruction.len > USIZE_MAX

\* Line 120 panics: the range is not within bytes.
SliceOutOfRange(sym, bytes, instruction) ==
    wrapping_sub(instruction.ip, sym.address) + instruction.len > Len(bytes)

\* A mutant of the return at line 129: an Assembly without instructions is
\* returned as no result.
assembly_return_nonempty(asm) ==
    IF asm.instructions = <<>> THEN None ELSE Some(asm)

\* Line 129: Some(Assembly { instructions }).
assembly_return(asm) == Some(asm)

\* Lines 357-358: the text the view shows for an instruction's tokens.
RECURSIVE join(_)
join(format) ==
    IF format = <<>> THEN "" ELSE Head(format)[1] \o join(Tail(format))

\* Lines 396-408: the label the view shows after the tokens.
reloc_label(inst) ==
    IF IsNone(inst.relocation) THEN ""
    ELSE IF IsSome(inst.relocation[1].demangled)
         THEN inst.relocation[1].demangled[1]
         ELSE inst.relocation[1].name


----------------------------------------------------------------------------
(* SpecAsm: assembly on a symbol of an Object that open_object built.       *)

AsmBytes == {0, 1, 2}

\* Section bases at the top of the address space: with the first the longest
\* section ends at u64::MAX, with the second it ends past it.
AsmBases == {U64_MAX - MaxLen, U64_MAX - MaxLen + 1}

RelocationTargets ==
    {[kind |-> "Symbol", index |-> 1],
     [kind |-> "Symbol", index |-> 2],
     [kind |-> "Section", index |-> 1]}

\* The relocations of the section: up to two, in the file's order, at the
\* addresses of the symbol's first instruction.
AsmRelocations(a1) ==
    LET window == {a \in U64 : a1 <= a /\ \E op \in AsmBytes : a < a1 + NominalLen(op)}
        one == {<<a, [target |-> t]>> : a \in window, t \in RelocationTargets}
    IN  {<<>>} \cup {<<r>> : r \in one}
        \cup {<<p[1], p[2]>> : p \in {q \in one \X one : q[2][1] > q[1][1]}}
        \cup {<<p[1], p[2]>> : p \in {q \in one \X one :
                                        /\ q[1][1] = a1
                                        /\ q[2][1] = a1
                                        /\ q[1][2].target.kind # q[2][2].target.kind}}

\* The object file of one code section at `base` holding the bytes d, with
\* the symbol _Z3bazv at a1 and, optionally, the symbol start at a2.
AsmFile(base, d, a1, a2, relocs) ==
    [format |-> "Elf",
     sections |-> <<[index |-> 1, name_bytes |-> Some(".text"),
                     uncompressed_data |-> Some(d), address |-> base,
                     relocations |-> relocs]>>,
     symbols |-> <<[index |-> 1, kind |-> "Text", section |-> Some(1),
                    address |-> a1, name_bytes |-> Some("_Z3bazv"), size |-> 0]>>
                 \o (IF IsNone(a2) THEN <<>>
                     ELSE <<[index |-> 2, kind |-> "Text", section |-> Some(1),
                             address |-> a2[1], name_bytes |-> Some("start"),
                             size |-> 0]>>)]

\* The state after open_object built an Object from a file and the view
\* selected its first symbol.
InitAsm ==
    /\ \E base \in AsmBases, d \in UNION {[1..n -> AsmBytes] : n \in 0..MaxLen} :
        \E a1 \in {a \in U64 : base - 1 <= a /\ a <= base + MaxLen} :
            \E a2 \in {None} \cup {Some(a) : a \in {x \in U64 : a1 <= x /\ x <= base + MaxLen}},
               relocs \in AsmRelocations(a1) :
                LET f == AsmFile(base, d, a1, a2, relocs)
                IN  \E o \in BuildObjects(f, FileName("/lib/libfoo.a"), "/lib/libfoo.a") :
                        /\ objects = <<o>>
                        /\ object = o
                        /\ self = o.symbols[1]
                        /\ cur_file = Some([archive |-> None, object |-> Some(f)])
    /\ pc = "ready"
    /\ queue = <<>>
    /\ mark = 0
    /\ member = 1
    /\ calls = <<>>
    /\ bs = None
    /\ size_r = None
    /\ data_r = None
    /\ decoder = Idle
    /\ assembly = Idle
    /\ assembly_r = None

\* Lines 78-93: self.data()?, the decoder and the empty Assembly.
AssemblyBegin ==
    /\ pc = "ready"
    /\ \E found \in SearchOutcomes(self) :
        /\ bs' = found
        /\ size_r' = estimate_size(self, found)
        /\ data_r' = data(self, found)
        /\ IF IsNone(data(self, found))
           THEN /\ pc' = "returned"
                /\ assembly_r' = None
                /\ UNCHANGED <<decoder, assembly>>
           ELSE /\ pc' = "decoding"
                /\ decoder' = DecoderWithIp(data(self, found)[1], self.address)
                /\ assembly' = [instructions |-> <<>>]
                /\ UNCHANGED assembly_r
    /\ UNCHANGED <<loaderVars, self, object>>

\* Lines 95-127: one iteration of the decode loop.
AssemblyDecode ==
    /\ pc = "decoding"
    /\ can_decode(decoder)
    /\ LET instruction == decode_out(decoder)
           bytes == decoder.data
       IN  /\ decoder' = decoder_advance(decoder, instruction)
           /\ \E panics \in (IF SliceOutOfRange(self, bytes, instruction) THEN {TRUE}
                             ELSE IF IterationOverflows(self, instruction) THEN {TRUE, FALSE}
                             ELSE {FALSE}) :
                IF panics
                THEN pc' = "panicked" /\ UNCHANGED assembly
                ELSE /\ pc' = "decoding"
                     /\ assembly' =
                          [assembly EXCEPT !.instructions =
                              Append(@, build_instruction(self, object, bytes, instruction))]
    /\ UNCHANGED <<loaderVars, extentVars, object, assembly_r>>

\* Lines 95 and 129: the loop ends and the Assembly is returned.
AssemblyReturn ==
    /\ pc = "decoding"
    /\ ~can_decode(decoder)
    /\ assembly_r' = assembly_return(assembly)
    /\ pc' = "returned"
    /\ UNCHANGED <<loaderVars, extentVars, object, decoder, assembly>>

NextAsm == AssemblyBegin \/ AssemblyDecode \/ AssemblyReturn

SpecAsm == InitAsm /\ [][NextAsm]_vars


----------------------------------------------------------------------------
(* Claims settled under Spec.                                               *)

\* The Objects appended since the current file was read.
Added == SubSeq(objects, mark + 1, Len(objects))

\* The members of the current file's archive (none when it is no archive).
Members == IF IsSome(cur_file[1].archive) THEN cur_file[1].archive[1] ELSE <<>>

\* `added` holds one Object for each buffer of `buffers` that is an object,
\* in order, each built from that buffer under that name.
BuiltFrom(added, buffers) ==
    LET valid == SelectSeq(buffers, LAMBDA b : IsSome(b.buffer.object))
    IN  /\ Len(added) = Len(valid)
        /\ \A i \in 1..Len(valid) :
             \E p \in Paths :
                added[i] \in BuildObjects(valid[i].buffer.object[1], valid[i].name, p)

\* The buffers the first n members of an archive give: a member that is Err
\* or whose data is unavailable gives a buffer that is nothing.
MemberBuffers(members, n) ==
    [k \in 1..n |->
        IF IsSome(members[k]) /\ IsSome(members[k][1].data)
        THEN [buffer |-> members[k][1].data[1], name |-> members[k][1].name]
        ELSE [buffer |-> Junk, name |-> ""]]

FileDone == pc \in {"idle", "read"} /\ IsSome(cur_file)

\* C6: an archive gives one Object for each member that is an object, in
\* member order; a member that is unreadable, has no bytes or is no object
\* gives none, raises no error and does not stop the later members; a buffer
\* that is neither an archive nor an object gives no Object.
C6_ArchiveMembers ==
    /\ (pc \in {"members", "toplevel"}) =>
            BuiltFrom(Added,
                      MemberBuffers(Members,
                                    IF pc = "members" THEN member - 1 ELSE Len(Members)))
    /\ FileDone =>
            /\ BuiltFrom(Added,
                         Append(MemberBuffers(Members, Len(Members)),
                                [buffer |-> cur_file[1], name |-> "libfoo.a"]))
            /\ (IsNone(cur_file[1].archive) /\ IsNone(cur_file[1].object))
                    => Len(objects) = mark
    /\ pc = "panicked" => IsNone(cur_file)

\* C6 witness: an archive whose first member is corrupt and whose second is
\* an object has been opened and exactly one Object was added.
C6_Witness ==
    /\ FileDone
    /\ IsSome(cur_file[1].archive)
    /\ IsNone(cur_file[1].object)
    /\ Len(Members) = 2
    /\ MemberHasData(Members[1])
    /\ ~MemberIsObject(Members[1])
    /\ MemberIsObject(Members[2])
    /\ Len(objects) = mark + 1

\* C7: the list of open Objects is append-only: a step leaves it as it is or
\* appends one Object at its end; each open_object call appends exactly one
\* Object when its buffer is an object and none when it is not; and once a
\* file is done, open_object has been called on each member's bytes and then,
\* last, on the file's own buffer, archive or not.
C7_AppendOnly ==
    /\ [][\/ objects' = objects
          \/ /\ Len(objects') = Len(objects) + 1
             /\ SubSeq(objects', 1, Len(objects)) = objects]_vars
    /\ [][(calls' # calls /\ calls' # <<>>) =>
            LET call == calls'[Len(calls')]
            IN  IF IsSome(call.buffer.object)
                THEN /\ Len(objects') = Len(objects) + 1
                     /\ SubSeq(objects', 1, Len(objects)) = objects
                     /\ \E p \in Paths, n \in {"a.o", "b.o", "libfoo.a"} :
                            objects'[Len(objects')] \in BuildObjects(call.buffer.object[1], n, p)
                ELSE objects' = objects]_vars
    /\ [](FileDone =>
            /\ calls # <<>>
            /\ calls[Len(calls)].who = "top"
            /\ calls[Len(calls)].buffer = cur_file[1]
            /\ \A k \in 1..(Len(calls) - 1) : calls[k].who = "member"
            /\ Len(calls) - 1 = Cardinality({k \in 1..Len(Members) : MemberHasData(Members[k])}))

\* C7 witness: a file that is no archive but an object was opened while
\* Objects were open, and its Object was appended.
C7_Witness ==
    /\ FileDone
    /\ IsNone(cur_file[1].archive)
    /\ IsSome(cur_file[1].object)
    /\ mark >= 1
    /\ Len(objects) = mark + 1
    /\ calls[Len(calls)].who = "top"

----------------------------------------------------------------------------
(* Claims settled under SpecAsm.                                            *)

\* The Instructions pushed so far.
Pushed ==
    IF pc \in {"decoding", "panicked"} \/ (pc = "returned" /\ IsSome(assembly_r))
    THEN assembly.instructions ELSE <<>>

\* The instruction the decoder yields at a pushed Instruction's address.
Decoded(inst) ==
    decode_out([data |-> data_r[1], position |-> inst.address - self.address,
                ip |-> inst.address])

\* The tokens of an instruction with every number written, and with none.
AllTokens(instruction) ==
    [i \in DOMAIN FormatterCalls(instruction) |->
        <<FormatterCalls(instruction)[i].text, FormatterCalls(instruction)[i].kind>>]
TokensButNumbers(instruction) ==
    LET kept == SelectSeq(FormatterCalls(instruction), LAMBDA c : c.call = "write")
    IN  [i \in DOMAIN kept |-> <<kept[i].text, kept[i].kind>>]
NumberTokens(instruction) ==
    {<<c.text, c.kind>> : c \in {FormatterCalls(instruction)[i] :
        i \in {j \in DOMAIN FormatterCalls(instruction) :
                    FormatterCalls(instruction)[j].call = "write_number"}}}

\* A symbol's display name: the demangled name if present, else the raw name.
DisplayName(sym) == IF IsSome(sym.demangled) THEN sym.demangled[1] ELSE sym.name

\* A relocation target resolves to a known Symbol.
Resolves(target) == target.kind = "Symbol" /\ target.index \in DOMAIN object.symbols

\* The addresses within an Instruction's bytes that have a relocation.
Fixups(inst) ==
    {a \in DOMAIN SelfSection.relocations :
        inst.address <= a /\ a < inst.address + Len(inst.bytes)}

Tokens(inst) == {inst.format[i] : i \in DOMAIN inst.format}

\* C5 as stated: an instruction with a relocation at its start address whose
\* target resolves has no numeric token and has the symbol's display name
\* among its tokens; if the target does not resolve, its tokens are the raw
\* ones, numbers included.
C5_NameAmongTokens ==
    \A k \in DOMAIN Pushed :
        LET inst == Pushed[k]
        IN  inst.address \in DOMAIN SelfSection.relocations =>
                LET target == SelfSection.relocations[inst.address].target
                IN  IF Resolves(target)
                    THEN /\ Tokens(inst) \cap NumberTokens(Decoded(inst)) = {}
                         /\ \E t \in Tokens(inst) :
                                t[1] = DisplayName(object.symbols[target.index])
                    ELSE inst.format = AllTokens(Decoded(inst))

\* C5 amended: an instruction whose only relocation is the one at its start
\* address: if the target resolves, the tokens are the raw ones without the
\* numbers, the Instruction's relocation is the resolved Symbol and the view's
\* label after the tokens is its display name, which is not among the tokens;
\* if it does not resolve, the tokens are the raw ones, the relocation is
\* none and the label is empty.
C5_NameInLabel ==
    \A k \in DOMAIN Pushed :
        LET inst == Pushed[k]
        IN  Fixups(inst) = {inst.address} =>
                LET target == SelfSection.relocations[inst.address].target
                IN  IF Resolves(target)
                    THEN /\ inst.format = TokensButNumbers(Decoded(inst))
                         /\ inst.relocation = Some(object.symbols[target.index])
                         /\ reloc_label(inst) = DisplayName(object.symbols[target.index])
                         /\ \A t \in Tokens(inst) :
                                t[1] # DisplayName(object.symbols[target.index])
                    ELSE /\ inst.format = AllTokens(Decoded(inst))
                         /\ inst.relocation = None
                         /\ reloc_label(inst) = ""

\* C5 witness: a jmp whose only relocation is at its start address and
\* targets the symbol _Z3bazv has been pushed; its label reads baz().
C5_Witness ==
    \E k \in DOMAIN Pushed :
        /\ Fixups(Pushed[k]) = {Pushed[k].address}
        /\ Decoded(Pushed[k]).code = "Jmp_rel8_64"
        /\ SelfSection.relocations[Pushed[k].address].target = [kind |-> "Symbol", index |-> 1]
        /\ reloc_label(Pushed[k]) = "baz()"
        /\ Len(Pushed[k].format) = 4

RECURSIVE Concat(_)
Concat(ins) == IF ins = <<>> THEN <<>> ELSE Head(ins).bytes \o Concat(Tail(ins))

\* C8: a returned Assembly's instructions have strictly increasing addresses,
\* the first at the symbol's address, each at the previous address plus the
\* previous length, each holding the section's bytes at its address, and
\* together they are the bytes data() returned.
C8_SpansExtent ==
    (pc = "returned" /\ IsSome(assembly_r)) =>
        LET ins == assembly_r[1].instructions
        IN  /\ IsSome(data_r)
            /\ ins # <<>> => ins[1].address = self.address
            /\ \A k \in 2..Len(ins) :
                /\ ins[k].address = ins[k - 1].address + Len(ins[k - 1].bytes)
                /\ ins[k].address > ins[k - 1].address
            /\ \A k \in 1..Len(ins) :
                /\ ins[k].address >= SelfSection.address
                /\ ins[k].address - SelfSection.address + Len(ins[k].bytes)
                        <= Len(SelfSection.data)
                /\ \A j \in 1..Len(ins[k].bytes) :
                        ins[k].bytes[j]
                            = SelfSection.data[ins[k].address - SelfSection.address + j]
            /\ Concat(ins) = data_r[1]

\* C8 witness: an Assembly of a two-byte instruction and a further one.
C8_Witness ==
    /\ pc = "returned"
    /\ IsSome(assembly_r)
    /\ Len(assembly_r[1].instructions) >= 2
    /\ Len(assembly_r[1].instructions[1].bytes) = 2
    /\ assembly_r[1].instructions[2].bytes # assembly_r[1].instructions[1].bytes

\* C9: assembly() returns no result exactly when data() returns none, and an
\* Assembly without instructions when data() returns an empty slice.
C9_EmptySpan ==
    pc = "returned" =>
        /\ IsNone(assembly_r) <=> IsNone(data_r)
        /\ data_r = Some(<<>>) => assembly_r = Some([instructions |-> <<>>])

\* C9 witness: the symbol's address is the section end, data() returned an
\* empty slice and assembly() an Assembly without instructions.
C9_Witness ==
    /\ pc = "returned"
    /\ data_r = Some(<<>>)
    /\ self.address = SectionEnd(SelfSection)
    /\ assembly_r = Some([instructions |-> <<>>])

Min(S) == CHOOSE x \in S : \A y \in S : x <= y
Max(S) == CHOOSE x \in S : \A y \in S : x >= y

\* What a relocation target resolves to.
ResolvedSymbol(target) ==
    IF Resolves(target) THEN Some(object.symbols[target.index]) ELSE None

\* C10 as stated: of the relocations within an instruction's bytes, the one
\* at the lowest address decides the instruction's resolved target.
C10_FirstMatchWins ==
    \A k \in DOMAIN Pushed :
        Fixups(Pushed[k]) # {} =>
            Pushed[k].relocation
                = ResolvedSymbol(SelfSection.relocations[Min(Fixups(Pushed[k]))].target)

\* C10 amended: of the relocations within an instruction's bytes, the one at
\* the highest address decides the instruction's resolved target; with none,
\* the instruction has no resolved target.
C10_LastMatchWins ==
    \A k \in DOMAIN Pushed :
        Pushed[k].relocation
            = IF Fixups(Pushed[k]) = {} THEN None
              ELSE ResolvedSymbol(SelfSection.relocations[Max(Fixups(Pushed[k]))].target)

\* C10 witness: an instruction with relocations at both of its bytes, the
\* first targeting _Z3bazv and the second the symbol start, resolved to start.
C10_Witness ==
    \E k \in DOMAIN Pushed :
        /\ Cardinality(Fixups(Pushed[k])) = 2
        /\ SelfSection.relocations[Pushed[k].address].target = [kind |-> "Symbol", index |-> 1]
        /\ IsSome(Pushed[k].relocation)
        /\ Pushed[k].relocation[1].name = "start"


\* The bytes at a returned Instruction are no instruction: its first byte is
\* no opcode, or the bytes left in the span are too few for the opcode.
Undecodable(inst) ==
    LET p == inst.address - self.address
        n == NominalLen(data_r[1][p + 1])
    IN  n = 0 \/ n > Len(data_r[1]) - p

\* The bytes from a returned Instruction's address to the end of the span.
BytesLeft(inst) ==
    SubSeq(data_r[1], inst.address - self.address + 1, Len(data_r[1]))

\* C11 as stated: when the trailing bytes of the span are too few for a full
\* instruction or cannot be decoded, the returned sequence ends at the last
\* fully decoded instruction: its last Instruction is not one for such bytes.
C11_EndsAtLastDecoded ==
    (pc = "returned" /\ IsSome(assembly_r)) =>
        LET ins == assembly_r[1].instructions
        IN  ins # <<>> => ~Undecodable(ins[Len(ins)])

\* C11 amended: a result is returned whenever data() returned a slice, and
\* the loop runs until the bytes are exhausted: bytes that are no instruction
\* are pushed as an Instruction of their own, shown as (bad): an undecodable
\* byte as one byte, after which decoding goes on, and trailing bytes too few
\* for their opcode as one Instruction holding all bytes left; so the last
\* Instruction ends at the end of the span.
C11_UndecodablePushedAsBad ==
    pc = "returned" =>
        /\ IsSome(data_r) => IsSome(assembly_r)
        /\ IsSome(assembly_r) =>
            LET ins == assembly_r[1].instructions
            IN  /\ data_r[1] # <<>> =>
                    /\ ins # <<>>
                    /\ BytesLeft(ins[Len(ins)]) = ins[Len(ins)].bytes
                /\ \A k \in DOMAIN ins :
                    Undecodable(ins[k]) =>
                        /\ ins[k].format = <<<<"(bad)", "Mnemonic">>>>
                        /\ ins[k].bytes =
                            IF NominalLen(data_r[1][ins[k].address - self.address + 1]) = 0
                            THEN <<data_r[1][ins[k].address - self.address + 1]>>
                            ELSE BytesLeft(ins[k])

\* C11 witness: a span of a one-byte instruction and then the opcode of a
\* two-byte one was decoded into two Instructions, the second one (bad).
C11_Witness ==
    /\ pc = "returned"
    /\ IsSome(assembly_r)
    /\ data_r = Some(<<0, 1>>)
    /\ Len(assembly_r[1].instructions) = 2
    /\ assembly_r[1].instructions[2].bytes = <<1>>
    /\ assembly_r[1].instructions[2].format = <<<<"(bad)", "Mnemonic">>>>


\* C12: the unchecked arithmetic and indexing of the decode loop never wraps
\* or goes out of bounds: whenever data() returned a slice, the symbol's
\* address plus the slice's length is within 64 bits, and for every
\* instruction the decoder yields, ip - address does not underflow, ip + i
\* does not overflow for any i below the instruction's length, and
\* start_index + length is within the slice; no iteration panics.
C12_LoopArithmeticInRange ==
    /\ pc # "panicked"
    /\ (pc \in {"decoding", "returned"} /\ IsSome(data_r)) =>
            self.address + Len(data_r[1]) <= U64_MAX
    /\ (pc = "decoding" /\ can_decode(decoder)) =>
            LET instruction == decode_out(decoder)
            IN  /\ instruction.len >= 1
                /\ instruction.ip >= self.address
                /\ \A i \in 0..(instruction.len - 1) : instruction.ip + i <= U64_MAX
                /\ (instruction.ip - self.address) + instruction.len <= USIZE_MAX
                /\ (instruction.ip - self.address) + instruction.len <= Len(decoder.data)
                /\ ~IterationOverflows(self, instruction)
                /\ ~SliceOutOfRange(self, decoder.data, instruction)

\* C12 witness: a span that ends at u64::MAX is about to have its last
\* instruction decoded, a two-byte one after an earlier instruction.
C12_Witness ==
    /\ pc = "decoding"
    /\ can_decode(decoder)
    /\ self.address + Len(decoder.data) = U64_MAX
    /\ decoder.position >= 1
    /\ decode_out(decoder).len = 2
    /\ decode_out(decoder).ip + 2 = U64_MAX

=============================================================================
